---- MODULE Spec2Model ----
(***************************************************************************)
(* Model of monk_tf/dev.py: the Device command dispatch over an ordered    *)
(* list of connections, and the Hydra / DevelDevice update and             *)
(* configuration-reset operations built on it.                             *)
(*                                                                         *)
(* Texts (commands, outputs, version strings, error messages) are          *)
(* sequences of one-character strings, so that formatting, containment     *)
(* and case folding are computed as the code computes them.                *)
(***************************************************************************)
EXTENDS Naturals, Integers, Sequences, FiniteSets

(* ---------------------------- bounds ----------------------------------- *)

\* largest number of connections a device is constructed with
MaxConns == 2

\* largest number of build records in one answer of the build server
MaxBuilds == 2

(* ------------------------ program constants ---------------------------- *)

\* out[:100] in the UpdateFailedException text
OutLimit == 100

\* time.sleep(240) after the update command
UpdateRecoveryWait == 240

\* time.sleep(120) after the configuration reset
ResetRecoveryWait == 120

(* ------------------------------ texts ---------------------------------- *)

UpdateLink ==
    <<"h","t","t","p",":","/","/","h","y","d","r","a","i","p","-","i","n",
      "t","e","g","r","a","t","i","o","n",".","i","n","t","e","r","n","a",
      "l",".","d","r","e","s","e","a","r","c","h","-","f","e",".","d","e",
      ":","8","0","8","0","/","v","i","e","w","/","H","I","P","O","S","/",
      "j","o","b","/","H","y","d","r","a","I","P","_","U","p","d","a","t",
      "e","V","3","_","U","S","B","_","S","t","i","c","k","/","l","a","s",
      "t","S","u","c","c","e","s","s","f","u","l","B","u","i","l","d","/",
      "a","r","t","i","f","a","c","t","/","r","e","l","-","h","u","d","s",
      "o","n","/","h","y","p","-","u","p","d","a","t","e","V","3","-","h",
      "i","k","i","r","k",".","z","i","p">>

UpdateCmdHead ==
    <<"d","o","-","u","p","d","a","t","e"," ","-","c"," ","&","&"," ","g",
      "e","t","-","u","p","d","a","t","e"," ">>

UpdateCmdTail ==
    <<" ","&","&"," ","d","o","-","u","p","d","a","t","e">>

VersionCmd ==
    <<"d","o","-","u","p","d","a","t","e"," ","-","-","c","u","r","r","e",
      "n","t","-","u","p","d","a","t","e","-","v","e","r","s","i","o","n",
      " ","|"," ","a","w","k"," ","'","{","p","r","i","n","t"," ","$","2",
      "}","'">>

ResetCmd ==
    <<"r","m"," ","-","r","f"," ","/","v","a","r","/","l","i","b","/","c",
      "o","n","n","m","a","n","/","*"," ","&","&"," ","h","i","p","-","a",
      "c","t","i","v","a","t","e","-","c","o","n","f","i","g"," ","-","-",
      "r","e","s","e","t"," ","&","&"," ","s","y","n","c"," ","&","&"," ",
      "h","a","l","t"," ","-","p">>

CantHandleHead ==
    <<"d","e","v",":","'">>

CantHandleMid ==
    <<"'",",","c","o","n","n","s",":","'">>

CantHandleTail ==
    <<"'",":","c","o","u","l","d"," ","n","o","t"," ","s","e","n","d"," ",
      "c","m","d"," ","'">>

ErrBuild ==
    <<"b","u","i","l","d",":">>

ErrFw ==
    <<";","f","w",":">>

ErrOut ==
    <<";","o","u","t",":">>

NotSupported ==
    <<"n","o","t"," ","s","u","p","p","o","r","t","e","d">>

ClosedWord ==
    <<"c","l","o","s","e","d">>

LoginWord ==
    <<"l","o","g","i","n">>

(* --------------------- inputs of the environment ----------------------- *)

\* a link argument of update(); <<>> stands for the default link=None
AltLink ==
    <<"h","t","t","p",":","/","/","h","/","u",".","z","i","p">>

Links == {<<>>, AltLink}

\* the command of a direct Device.cmd call
UserCmd ==
    <<"l","s"," ","-","a","l">>

\* texts a connection can leave as its last match
PromptText ==
    <<"$"," ">>

LoginText ==
    <<"L","o","g","i","n",":"," ">>

ClosedText ==
    <<"C","o","n","n","e","c","t","i","o","n"," ","t","o"," ","h"," ","c",
      "l","o","s","e","d",".">>

LanText ==
    <<"I","N","F","O"," ","-"," ","L","A","N">>

\* version strings the device can print; also the outputs of other commands
FwVersions == {<<"r","4","2">>, <<"r","4">>}

\* build numbers the build server can report
BuildNumbers == {4, 42}

\* the "builds" arrays the build server can answer with
BuildLists == UNION {[1..n -> BuildNumbers] : n \in 0..MaxBuilds}

\* a custom device name given as name=...
CustomName == <<"d","u","t">>

Classes == {"Device", "Hydra", "DevelDevice"}

\* the value of a call that returns None
NoValue == <<>>

(* ------------------------- pure functions ------------------------------ *)

Digits == <<"0","1","2","3","4","5","6","7","8","9">>

UpperLetters ==
    <<"A","B","C","D","E","F","G","H","I","J","K","L","M",
      "N","O","P","Q","R","S","T","U","V","W","X","Y","Z">>

LowerLetters ==
    <<"a","b","c","d","e","f","g","h","i","j","k","l","m",
      "n","o","p","q","r","s","t","u","v","w","x","y","z">>

\* str(n) of a non-negative integer
RECURSIVE DecStr(_)
DecStr(n) ==
    IF n < 10 THEN <<Digits[n + 1]>>
    ELSE DecStr(n \div 10) \o <<Digits[(n % 10) + 1]>>

\* one character of str.lower()
LowerChar(ch) ==
    IF \E i \in 1..26 : UpperLetters[i] = ch
    THEN LowerLetters[CHOOSE i \in 1..26 : UpperLetters[i] = ch]
    ELSE ch

\* str.lower()
Lower(s) == [i \in 1..Len(s) |-> LowerChar(s[i])]

\* the Python test  needle in hay  on two strings
Contains(needle, hay) ==
    \E i \in 0..(Len(hay) - Len(needle)) :
        SubSeq(hay, i + 1, i + Len(needle)) = needle

\* s[:n]
Prefix(s, n) == SubSeq(s, 1, IF Len(s) < n THEN Len(s) ELSE n)

\* max(...) over the build numbers, folded in the order of the records
RECURSIVE MaxFrom(_, _, _)
MaxFrom(builds, i, best) ==
    IF i > Len(builds) THEN best
    ELSE MaxFrom(builds, i + 1, IF builds[i] > best THEN builds[i] ELSE best)

\* MaxBuild taking the last record for the newest
MaxBuildLast(builds) == builds[Len(builds)]

MaxBuild(builds) == MaxFrom(builds, 2, builds[1])

\* Hydra.latest_build on a non-empty answer of the build server
LatestBuildOf(builds) == DecStr(MaxBuild(builds))

\* has_newest_firmware by equality instead of containment
HasNewestEqual(build, fw) == build = fw

\* Hydra.has_newest_firmware: latest_build in current_fw_version
HasNewest(build, fw) == Contains(build, fw)

\* self.__class__.__name__
ClassName(c) ==
    CASE c = "Device" -> <<"D","e","v","i","c","e">>
      [] c = "Hydra" -> <<"H","y","d","r","a">>
      [] c = "DevelDevice" -> <<"D","e","v","e","l","D","e","v","i","c","e">>

\* str(connection)
ConnStr(c) == <<"c">> \o DecStr(c)

\* the rendering of a list of strings, as '{}'.format prints it
RECURSIVE ReprItems(_, _)
ReprItems(cs, i) ==
    IF i > Len(cs) THEN <<>>
    ELSE (IF i > 1 THEN <<",", " ">> ELSE <<>>)
         \o <<"'">> \o ConnStr(cs[i]) \o <<"'">> \o ReprItems(cs, i + 1)

ListRepr(cs) == <<"[">> \o ReprItems(cs, 1) \o <<"]">>

\* the command text of update(link)
UpdateCmd(l) ==
    UpdateCmdHead \o (IF l # <<>> THEN l ELSE UpdateLink) \o UpdateCmdTail

MsgKinds == {"user", "version", "update", "reset"}

\* the text of the command that a dispatch carries
MsgText(m, l) ==
    CASE m = "user" -> UserCmd
      [] m = "version" -> VersionCmd
      [] m = "update" -> UpdateCmd(l)
      [] m = "reset" -> ResetCmd

\* CantHandleText without the command
CantHandleTextNoCmd(nm, cs, text) ==
    CantHandleHead \o nm \o CantHandleMid \o ListRepr(cs)
        \o CantHandleTail \o <<"'">>

\* the text of the CantHandleException of Device.cmd
CantHandleText(nm, cs, text) ==
    CantHandleHead \o nm \o CantHandleMid \o ListRepr(cs)
        \o CantHandleTail \o text \o <<"'">>

\* the text of the UpdateFailedException of Hydra.update
UpdateFailedText(build, fw, o) ==
    ErrBuild \o build \o ErrFw \o fw \o ErrOut \o Prefix(o, OutLimit)

\* the output a connection can return for a command
OutputsFor(m) ==
    IF m \in {"user", "version"} THEN FwVersions ELSE {<<"o","k">>}

\* the last match a connection can be left with when a command came back:
\* the prompt by default, otherwise one branch of the expect pattern
AftersFor(m) ==
    CASE m \in {"user", "version"} -> {PromptText}
      [] m = "update" -> {LoginText, ClosedText}
      [] m = "reset" -> {LoginText, ClosedText, LanText}

(* ------------------------------ state ---------------------------------- *)

VARIABLES
    cls,        \* the class of the device object
    name,       \* Device.name
    conns,      \* Device.conns: the ordered list of connections
    exp,        \* per connection: its session (_exp) and last match (after)
    op,         \* the call of the caller that is running or ended last
    link,       \* the link argument of update()
    pc,         \* what is left to run of the call, innermost first
    result,     \* how the call ended: "return" or the exception raised
    retval,     \* the value returned, or the text of the exception
    msg,        \* the command of the Device.cmd in progress
    idx,        \* position of the loop of Device.cmd in conns
    attempts,   \* the connections the Device.cmd in progress has invoked
    logged,     \* the connections whose failure it has logged
    ret,        \* the value of the last Device.cmd that returned
    out,        \* the local variable out of update()
    latest,     \* the value of the last latest_build
    fresh,      \* the value of the last has_newest_firmware
    sent,       \* per command, how often the call invoked a connection
    events,     \* what the call did, in order
    resets,     \* the connections whose session the call deleted
    slept,      \* the seconds the call has spent in time.sleep
    served,     \* the connection that served the update or reset command
    exitStatus, \* the exit status the connection's update command ended
                \* with, -1 if none; dev.py never reads it
    response    \* the "builds" array of the answer latest_build has just
                \* read (its local out, parsed); empty once the call moved on

vars == <<cls, name, conns, exp, op, link, pc, result, retval, msg, idx,
          attempts, logged, ret, out, latest, fresh, sent, events, resets,
          slept, served, exitStatus, response>>

devVars == <<cls, name, conns>>

\* a connection without a session (no _exp attribute)
NoSession == [live |-> FALSE, text |-> FALSE, after |-> <<>>]

\* a session whose last expect ended without a match (after is no string)
NoMatch == [live |-> TRUE, text |-> FALSE, after |-> <<>>]

\* a session whose last expect matched t
Matched(t) == [live |-> TRUE, text |-> TRUE, after |-> t]

NoneSent == [m \in MsgKinds |-> 0]

Init ==
    /\ cls \in Classes
    /\ name \in {ClassName(cls), CustomName}
    /\ \E n \in 0..MaxConns : conns = [i \in 1..n |-> i]
    /\ exp = [c \in 1..Len(conns) |-> NoSession]
    /\ op = "none"
    /\ link = <<>>
    /\ pc = <<>>
    /\ result = "none"
    /\ retval = NoValue
    /\ msg = "user"
    /\ idx = 1
    /\ attempts = <<>>
    /\ logged = <<>>
    /\ ret = NoValue
    /\ out = NoValue
    /\ latest = NoValue
    /\ fresh = FALSE
    /\ sent = NoneSent
    /\ events = <<>>
    /\ resets = {}
    /\ slept = 0
    /\ served = 0
    /\ exitStatus = -1
    /\ response = <<>>

(* --------------------------- call frames ------------------------------- *)

\* what a call of the caller starts from
ResetCall(o, l) ==
    /\ op' = o
    /\ link' = l
    /\ ret' = NoValue
    /\ out' = NoValue
    /\ latest' = NoValue
    /\ fresh' = FALSE
    /\ sent' = NoneSent
    /\ resets' = {}
    /\ slept' = 0
    /\ served' = 0
    /\ exitStatus' = -1
    /\ response' = <<>>

\* the call is running: it has not ended yet
Running ==
    /\ result' = "none"
    /\ retval' = NoValue

callVars == <<op, link, result, retval, ret, out, latest, fresh, sent,
              resets, slept, served, exitStatus, response>>

\* entry of Device.cmd(msg=m): the loop starts at the first connection
StartCmd(m) ==
    /\ msg' = m
    /\ idx' = 1
    /\ attempts' = <<>>
    /\ logged' = <<>>

cmdVars == <<msg, idx, attempts, logged>>

\* an exception leaves every frame of the call: nothing above catches it
Raise(kind, text) ==
    /\ result' = kind
    /\ retval' = text
    /\ pc' = <<>>

\* the call returns v to the caller
Return(v) ==
    /\ result' = "return"
    /\ retval' = v
    /\ pc' = <<>>

At(frame) == pc # <<>> /\ Head(pc) = frame

(* ---------------------------- Device.cmd ------------------------------- *)

\* the caller calls Device.cmd
Cmd ==
    /\ pc = <<>>
    /\ Running
    /\ ResetCall("cmd", <<>>)
    /\ StartCmd("user")
    /\ events' = <<"cmd_user">>
    /\ pc' = <<"cmd", "return">>
    /\ UNCHANGED <<devVars, exp>>

\* ConnCmdReturn without the return: the loop goes on after a success
ConnCmdKeepsTrying ==
    /\ At("cmd")
    /\ idx <= Len(conns)
    /\ \E o \in OutputsFor(msg), a \in AftersFor(msg),
          st \in (IF msg = "update" THEN {0, 1} ELSE {exitStatus}) :
        LET c == conns[idx] IN
        /\ exp' = [exp EXCEPT ![c] = Matched(a)]
        /\ attempts' = Append(attempts, [conn |-> c, ok |-> TRUE, out |-> o])
        /\ sent' = [sent EXCEPT ![msg] = @ + 1]
        /\ ret' = o
        /\ served' = IF msg \in {"update", "reset"} THEN c ELSE served
        /\ exitStatus' = st
    /\ idx' = idx + 1
    /\ UNCHANGED <<devVars, op, link, pc, result, retval, msg, logged, out,
                   latest, fresh, events, resets, slept, response>>

\* the connection at idx serves the command: Device.cmd returns its output
ConnCmdReturn ==
    /\ At("cmd")
    /\ idx <= Len(conns)
    /\ \E o \in OutputsFor(msg), a \in AftersFor(msg),
          st \in (IF msg = "update" THEN {0, 1} ELSE {exitStatus}) :
        LET c == conns[idx] IN
        /\ exp' = [exp EXCEPT ![c] = Matched(a)]
        /\ attempts' = Append(attempts, [conn |-> c, ok |-> TRUE, out |-> o])
        /\ sent' = [sent EXCEPT ![msg] = @ + 1]
        /\ ret' = o
        /\ served' = IF msg \in {"update", "reset"} THEN c ELSE served
        /\ exitStatus' = st
    /\ pc' = Tail(pc)
    /\ UNCHANGED <<devVars, op, link, result, retval, msg, idx, logged, out,
                   latest, fresh, events, resets, slept, response>>

\* ConnCmdRaise with a retry: the loop stays at the connection that failed
ConnCmdRaiseRetries ==
    /\ At("cmd")
    /\ idx <= Len(conns)
    /\ \E timeout \in BOOLEAN :
        LET c == conns[idx] IN
        /\ exp' = IF timeout THEN [exp EXCEPT ![c] = NoMatch] ELSE exp
        /\ attempts' = Append(attempts, [conn |-> c, ok |-> FALSE, out |-> <<>>])
        /\ logged' = Append(logged, c)
        /\ sent' = [sent EXCEPT ![msg] = @ + 1]
    /\ idx' = idx
    /\ UNCHANGED <<devVars, op, link, pc, result, retval, msg, ret, out,
                   latest, fresh, events, resets, slept, served,
                   exitStatus, response>>

\* the connection at idx raises: the exception is logged, the loop goes on
ConnCmdRaise ==
    /\ At("cmd")
    /\ idx <= Len(conns)
    /\ \E timeout \in BOOLEAN :
        LET c == conns[idx] IN
        /\ exp' = IF timeout THEN [exp EXCEPT ![c] = NoMatch] ELSE exp
        /\ attempts' = Append(attempts, [conn |-> c, ok |-> FALSE, out |-> <<>>])
        /\ logged' = Append(logged, c)
        /\ sent' = [sent EXCEPT ![msg] = @ + 1]
    /\ idx' = idx + 1
    /\ UNCHANGED <<devVars, op, link, pc, result, retval, msg, ret, out,
                   latest, fresh, events, resets, slept, served,
                   exitStatus, response>>

\* CmdExhausted without the raise: Device.cmd falls off its end with None
CmdFallsThrough ==
    /\ At("cmd")
    /\ idx > Len(conns)
    /\ ret' = NoValue
    /\ pc' = Tail(pc)
    /\ UNCHANGED <<devVars, exp, op, link, result, retval, msg, idx, attempts,
                   logged, out, latest, fresh, sent, events, resets, slept,
                   served, exitStatus, response>>

\* CmdExhausted reclassified: the failure is reported as a failed update
CmdExhaustedAsUpdateFailed ==
    /\ At("cmd")
    /\ idx > Len(conns)
    /\ Raise(IF op = "update" THEN "UpdateFailedException"
                              ELSE "CantHandleException",
             CantHandleText(name, conns, MsgText(msg, link)))
    /\ UNCHANGED <<devVars, exp, op, link, msg, idx, attempts, logged, ret,
                   out, latest, fresh, sent, events, resets, slept, served,
                   exitStatus, response>>

\* the loop is over and nothing returned: Device.cmd raises
CmdExhausted ==
    /\ At("cmd")
    /\ idx > Len(conns)
    /\ Raise("CantHandleException",
             CantHandleText(name, conns, MsgText(msg, link)))
    /\ UNCHANGED <<devVars, exp, op, link, msg, idx, attempts, logged, ret,
                   out, latest, fresh, sent, events, resets, slept, served,
                   exitStatus, response>>

\* the value of a Device.cmd or of a property reaches the caller
ReturnToCaller ==
    /\ At("return")
    /\ Return(CASE op = "latest_build" -> latest
                [] op \in {"has_newest_firmware", "is_updated"} -> fresh
                [] OTHER -> ret)
    /\ UNCHANGED <<devVars, exp, op, link, msg, idx, attempts, logged, ret,
                   out, latest, fresh, sent, events, resets, slept, served,
                   exitStatus, response>>

(* ------------------------ Hydra: the properties ------------------------ *)

Properties ==
    {"latest_build", "current_fw_version", "has_newest_firmware", "is_updated"}

\* the frames of has_newest_firmware (and of is_updated, which is the same)
FreshnessFrames == <<"latest_build", "current_fw_version", "has_newest_firmware">>

\* the caller reads a property of a Hydra
HydraRead(p) ==
    /\ pc = <<>>
    /\ cls = "Hydra"
    /\ Running
    /\ ResetCall(p, <<>>)
    /\ StartCmd("user")
    /\ events' = <<>>
    /\ pc' = (CASE p = "latest_build" -> <<"latest_build">>
                [] p = "current_fw_version" -> <<"current_fw_version">>
                [] OTHER -> FreshnessFrames) \o <<"return">>
    /\ UNCHANGED <<devVars, exp>>

\* Hydra.latest_build: ask the build server, take the largest number
LatestBuild ==
    /\ At("latest_build")
    /\ events' = Append(events, "http")
    /\ \E answered \in BOOLEAN, builds \in BuildLists :
        /\ response' = IF answered THEN builds ELSE <<>>
        /\ IF answered /\ builds # <<>>
           THEN /\ latest' = LatestBuildOf(builds)
                /\ pc' = Tail(pc)
                /\ UNCHANGED <<result, retval>>
           ELSE /\ Raise("OtherError", NoValue)
                /\ UNCHANGED latest
    /\ UNCHANGED <<devVars, exp, op, link, msg, idx, attempts, logged, ret,
                   out, fresh, sent, resets, slept, served, exitStatus>>

\* Hydra.current_fw_version: send the version command through Device.cmd
CurrentFwVersion ==
    /\ At("current_fw_version")
    /\ StartCmd("version")
    /\ events' = Append(events, "cmd_version")
    /\ pc' = <<"cmd">> \o Tail(pc)
    /\ response' = <<>>
    /\ UNCHANGED <<devVars, exp, op, link, result, retval, ret, out, latest,
                   fresh, sent, resets, slept, served, exitStatus>>

\* HasNewestFirmware with a cache: only the first evaluation of a call counts
HasNewestFirmwareCached ==
    /\ At("has_newest_firmware")
    /\ fresh' = IF Cardinality({k \in DOMAIN events : events[k] = "http"}) > 1
                THEN fresh
                ELSE HasNewest(latest, ret)
    /\ pc' = Tail(pc)
    /\ UNCHANGED <<devVars, exp, op, link, result, retval, cmdVars, ret, out,
                   latest, sent, events, resets, slept, served, exitStatus,
                   response>>

\* Hydra.has_newest_firmware: latest_build in current_fw_version
HasNewestFirmware ==
    /\ At("has_newest_firmware")
    /\ fresh' = HasNewest(latest, ret)
    /\ pc' = Tail(pc)
    /\ UNCHANGED <<devVars, exp, op, link, result, retval, cmdVars, ret, out,
                   latest, sent, events, resets, slept, served, exitStatus,
                   response>>

(* --------------------------- Hydra.update ------------------------------ *)

\* the caller calls update(link): first the check  not self.is_updated
Update ==
    /\ pc = <<>>
    /\ cls = "Hydra"
    /\ Running
    /\ \E l \in Links : ResetCall("update", l)
    /\ StartCmd("user")
    /\ events' = <<"log_attempt">>
    /\ pc' = FreshnessFrames \o <<"update_guard">>
    /\ UNCHANGED <<devVars, exp>>

\* UpdateGuard without the test: the update command is sent in any case
UpdateUnguarded ==
    /\ At("update_guard")
    /\ events' = Append(events, "cmd_update")
    /\ StartCmd("update")
    /\ pc' = <<"cmd", "update_reset", "update_sleep">>
                 \o FreshnessFrames \o <<"update_verify">>
    /\ UNCHANGED <<devVars, exp, callVars>>

\* if not self.is_updated: send the update command; else "Already updated."
UpdateGuard ==
    /\ At("update_guard")
    /\ IF fresh
       THEN /\ events' = Append(events, "log_already")
            /\ Return(NoValue)
            /\ UNCHANGED cmdVars
       ELSE /\ events' = Append(events, "cmd_update")
            /\ StartCmd("update")
            /\ pc' = <<"cmd", "update_reset", "update_sleep">>
                         \o FreshnessFrames \o <<"update_verify">>
            /\ UNCHANGED <<result, retval>>
    /\ UNCHANGED <<devVars, exp, op, link, ret, out, latest, fresh, sent,
                   resets, slept, served, exitStatus, response>>

\* UpdateResetConnection deleting the connection instead of its session
UpdateResetDropsConnection ==
    /\ At("update_reset")
    /\ out' = ret
    /\ LET first == conns[1] IN
       IF ~exp[first].text
       THEN /\ Raise("OtherError", NoValue)
            /\ UNCHANGED <<conns, exp, resets, events>>
       ELSE /\ pc' = Tail(pc)
            /\ UNCHANGED <<result, retval>>
            /\ IF Contains(ClosedWord, exp[first].after)
               THEN /\ conns' = Tail(conns)
                    /\ resets' = resets \cup {first}
                    /\ events' = Append(events, "del_exp")
                    /\ UNCHANGED exp
               ELSE UNCHANGED <<conns, exp, resets, events>>
    /\ UNCHANGED <<cls, name, op, link, cmdVars, ret, latest, fresh, sent,
                   slept, served, exitStatus, response>>

\* out = ...; if "closed" in self.conns[0].exp.after: del self.conns[0]._exp
UpdateResetConnection ==
    /\ At("update_reset")
    /\ out' = ret
    /\ LET first == conns[1] IN
       IF ~exp[first].text
       THEN /\ Raise("OtherError", NoValue)
            /\ UNCHANGED <<exp, resets, events>>
       ELSE /\ pc' = Tail(pc)
            /\ UNCHANGED <<result, retval>>
            /\ IF Contains(ClosedWord, exp[first].after)
               THEN /\ exp' = [exp EXCEPT ![first] = NoSession]
                    /\ resets' = resets \cup {first}
                    /\ events' = Append(events, "del_exp")
               ELSE UNCHANGED <<exp, resets, events>>
    /\ UNCHANGED <<devVars, op, link, cmdVars, ret, latest, fresh, sent,
                   slept, served, exitStatus, response>>

\* time.sleep(240)
UpdateSleep ==
    /\ At("update_sleep")
    /\ slept' = slept + UpdateRecoveryWait
    /\ events' = Append(events, "sleep")
    /\ pc' = Tail(pc)
    /\ UNCHANGED <<devVars, exp, op, link, result, retval, cmdVars, ret, out,
                   latest, fresh, sent, resets, served, exitStatus, response>>

\* if not self.is_updated: build the error text; else update() is over
UpdateVerify ==
    /\ At("update_verify")
    /\ IF fresh
       THEN Return(NoValue)
       ELSE /\ pc' = <<"latest_build", "current_fw_version", "update_raise">>
            /\ UNCHANGED <<result, retval>>
    /\ UNCHANGED <<devVars, exp, op, link, cmdVars, ret, out, latest, fresh,
                   sent, events, resets, slept, served, exitStatus, response>>

\* raise UpdateFailedException(error)
UpdateRaise ==
    /\ At("update_raise")
    /\ Raise("UpdateFailedException", UpdateFailedText(latest, ret, out))
    /\ UNCHANGED <<devVars, exp, op, link, cmdVars, ret, out, latest, fresh,
                   sent, events, resets, slept, served, exitStatus, response>>

(* ------------------------ Hydra.reset_config --------------------------- *)

\* the caller calls reset_config(): send the reset command
ResetConfig ==
    /\ pc = <<>>
    /\ cls = "Hydra"
    /\ Running
    /\ ResetCall("reset_config", <<>>)
    /\ StartCmd("reset")
    /\ events' = <<"cmd_reset">>
    /\ pc' = <<"cmd", "reset_reset", "reset_sleep">>
    /\ UNCHANGED <<devVars, exp>>

\* ResetResetConnection without lower(): "Login: " counts as no login
ResetResetCaseSensitive ==
    /\ At("reset_reset")
    /\ LET first == conns[1] IN
       IF ~exp[first].text
       THEN /\ Raise("OtherError", NoValue)
            /\ UNCHANGED <<exp, resets, events>>
       ELSE /\ pc' = Tail(pc)
            /\ UNCHANGED <<result, retval>>
            /\ IF ~Contains(LoginWord, exp[first].after)
               THEN /\ exp' = [exp EXCEPT ![first] = NoSession]
                    /\ resets' = resets \cup {first}
                    /\ events' = Append(events, "del_exp")
               ELSE UNCHANGED <<exp, resets, events>>
    /\ UNCHANGED <<devVars, op, link, cmdVars, ret, out, latest, fresh, sent,
                   slept, served, exitStatus, response>>

\* if "login" not in self.conns[0].exp.after.lower(): del self.conns[0]._exp
ResetResetConnection ==
    /\ At("reset_reset")
    /\ LET first == conns[1] IN
       IF ~exp[first].text
       THEN /\ Raise("OtherError", NoValue)
            /\ UNCHANGED <<exp, resets, events>>
       ELSE /\ pc' = Tail(pc)
            /\ UNCHANGED <<result, retval>>
            /\ IF ~Contains(LoginWord, Lower(exp[first].after))
               THEN /\ exp' = [exp EXCEPT ![first] = NoSession]
                    /\ resets' = resets \cup {first}
                    /\ events' = Append(events, "del_exp")
               ELSE UNCHANGED <<exp, resets, events>>
    /\ UNCHANGED <<devVars, op, link, cmdVars, ret, out, latest, fresh, sent,
                   slept, served, exitStatus, response>>

\* time.sleep(120), then reset_config() is over
ResetSleep ==
    /\ At("reset_sleep")
    /\ slept' = slept + ResetRecoveryWait
    /\ events' = Append(events, "sleep")
    /\ Return(NoValue)
    /\ UNCHANGED <<devVars, exp, op, link, cmdVars, ret, out, latest, fresh,
                   sent, resets, served, exitStatus, response>>

(* ---------------------------- DevelDevice ------------------------------ *)

\* DevelDevice.update without the override: the update of Hydra runs
DevelUpdateInherited ==
    /\ pc = <<>>
    /\ cls = "DevelDevice"
    /\ Running
    /\ \E l \in Links : ResetCall("update", l)
    /\ StartCmd("user")
    /\ events' = <<"log_attempt">>
    /\ pc' = FreshnessFrames \o <<"update_guard">>
    /\ UNCHANGED <<devVars, exp>>

\* DevelDevice.update: pass
DevelUpdate ==
    /\ pc = <<>>
    /\ cls = "DevelDevice"
    /\ \E l \in Links : ResetCall("update", l)
    /\ StartCmd("user")
    /\ events' = <<>>
    /\ Return(NoValue)
    /\ UNCHANGED <<devVars, exp>>

\* DevelDevice.reset_config: pass
DevelResetConfig ==
    /\ pc = <<>>
    /\ cls = "DevelDevice"
    /\ ResetCall("reset_config", <<>>)
    /\ StartCmd("user")
    /\ events' = <<>>
    /\ Return(NoValue)
    /\ UNCHANGED <<devVars, exp>>

\* the properties of a DevelDevice: True for is_updated, else "not supported"
DevelRead(p) ==
    /\ pc = <<>>
    /\ cls = "DevelDevice"
    /\ ResetCall(p, <<>>)
    /\ StartCmd("user")
    /\ events' = <<>>
    /\ Return(IF p = "is_updated" THEN TRUE ELSE NotSupported)
    /\ UNCHANGED <<devVars, exp>>

(* -------------------------- specification ------------------------------ *)

Next ==
    \/ Cmd
    \/ ConnCmdReturn
    \/ ConnCmdRaise
    \/ CmdExhausted
    \/ ReturnToCaller
    \/ \E p \in Properties : HydraRead(p)
    \/ LatestBuild
    \/ CurrentFwVersion
    \/ HasNewestFirmware
    \/ Update
    \/ UpdateGuard
    \/ UpdateResetConnection
    \/ UpdateSleep
    \/ UpdateVerify
    \/ UpdateRaise
    \/ ResetConfig
    \/ ResetResetConnection
    \/ ResetSleep
    \/ DevelUpdate
    \/ DevelResetConfig
    \/ \E p \in Properties : DevelRead(p)

Spec == Init /\ [][Next]_vars

TypeOK ==
    /\ cls \in Classes
    /\ idx \in 1..(Len(conns) + 1)
    /\ result \in {"none", "return", "CantHandleException",
                   "UpdateFailedException", "OtherError"}
    /\ exitStatus \in {-1, 0, 1}

(* ------------------------------ claims --------------------------------- *)

CmdEvents == {"cmd_user", "cmd_version", "cmd_update", "cmd_reset"}

\* the call has entered Device.cmd at least once
CmdBegun == \E k \in DOMAIN events : events[k] \in CmdEvents

\* the last Device.cmd of the call is over and every connection failed in it
Exhausted ==
    /\ CmdBegun
    /\ ~At("cmd")
    /\ Len(attempts) = Len(conns)
    /\ \A j \in DOMAIN attempts : ~attempts[j].ok

\* the call has ended
Ended == op # "none" /\ pc = <<>>

\* needle occurs in hay: at some offset every character of needle is there
Occurs(needle, hay) ==
    \E i \in 0..(Len(hay) - Len(needle)) :
        \A k \in 1..Len(needle) : hay[i + k] = needle[k]

\* C1: if the connection at position i serves the command and all before it
\* failed, Device.cmd is over with exactly that connection's output, the
\* connections were tried in list order, and none after i was invoked.
C1_FirstSuccessWins ==
    \A i \in DOMAIN attempts :
        attempts[i].ok =>
            /\ i = Len(attempts)
            /\ ~At("cmd")
            /\ \A j \in 1..i : attempts[j].conn = conns[j]
            /\ \A j \in 1..(i - 1) : ~attempts[j].ok
            /\ ret = attempts[i].out
            /\ (op = "cmd" /\ pc = <<>>) =>
                   (result = "return" /\ retval = attempts[i].out)

\* C1 witness: a direct cmd that the second connection served after the
\* first one failed
C1_Witness ==
    /\ op = "cmd"
    /\ result = "return"
    /\ Len(attempts) = 2
    /\ ~attempts[1].ok
    /\ attempts[2].ok
    /\ retval = <<"r","4">>

\* C2: when every connection failed, Device.cmd raises CantHandleException
\* and its text holds the device name, the rendering of each connection
\* tried, and the command text.
C2_ExhaustedRaises ==
    Exhausted =>
        /\ result = "CantHandleException"
        /\ Occurs(name, retval)
        /\ \A j \in DOMAIN attempts : Occurs(ConnStr(attempts[j].conn), retval)
        /\ Occurs(MsgText(msg, link), retval)

\* C2 witness: an update with a link argument whose update command failed on
\* both connections
C2_Witness ==
    /\ op = "update"
    /\ link = AltLink
    /\ msg = "update"
    /\ Len(conns) = 2
    /\ Exhausted
    /\ result = "CantHandleException"

\* C3: with an empty connection list Device.cmd raises CantHandleException
\* and no connection is invoked.
C3_EmptyListRaises ==
    conns = <<>> =>
        /\ attempts = <<>>
        /\ sent = NoneSent
        /\ (CmdBegun /\ ~At("cmd")) => result = "CantHandleException"

\* C3 witness: a direct cmd on a device without connections has raised
C3_Witness ==
    /\ conns = <<>>
    /\ op = "cmd"
    /\ result = "CantHandleException"

\* C4: reset_config() never raises.
C4_ResetNeverRaises ==
    op = "reset_config" => result \in {"none", "return"}

\* C5: update() of a device that was not updated, whose update command
\* reported a non-zero exit status, ends with UpdateFailedException whatever
\* the freshness check after it read.
C5_NonZeroExitFails ==
    (/\ op = "update"
     /\ exitStatus \notin {-1, 0}
     /\ pc = <<>>
     /\ result \in {"return", "UpdateFailedException"})
        => result = "UpdateFailedException"

\* C6: update() of a device that was not updated, with exit status zero and
\* a freshness check that reads true afterwards, returns normally and has
\* reset the session of the connection that carried the update command.
C6_UsedConnectionReset ==
    (/\ op = "update"
     /\ cls = "Hydra"
     /\ exitStatus = 0
     /\ pc = <<>>
     /\ result = "return")
        => served \in resets

\* the entry check of update() has read true (one query of the build server
\* so far, and the containment test gave true)
EntryCheckTrue ==
    /\ op = "update"
    /\ cls = "Hydra"
    /\ fresh
    /\ Cardinality({k \in DOMAIN events : events[k] = "http"}) = 1

\* C7 as stated: update() with is_updated already true sends no command
\* through any connection and returns without error.
C7_NoCommandAtAll ==
    (op = "update" /\ pc = <<>> /\ (cls = "DevelDevice" \/ EntryCheckTrue))
        => (result = "return" /\ sent = NoneSent)

\* C7 amended: update() with is_updated already true sends nothing but the
\* version query of that check: no update command, no other command, no
\* session reset and no wait, and it returns without error.
C7_OnlyTheVersionQuery ==
    EntryCheckTrue =>
        /\ sent["update"] = 0
        /\ sent["reset"] = 0
        /\ sent["user"] = 0
        /\ sent["version"] \in 1..Len(conns)
        /\ resets = {}
        /\ slept = 0
        /\ "cmd_update" \notin {events[k] : k \in DOMAIN events}
        /\ pc = <<>> => result = "return"

\* C7 witness: an update that found the device updated and returned
C7_Witness ==
    /\ EntryCheckTrue
    /\ result = "return"
    /\ events = <<"log_attempt", "http", "cmd_version", "log_already">>
    /\ sent["version"] = 2

\* C8: on a Hydra, is_updated (and has_newest_firmware) is true exactly when
\* the latest build, as a string, occurs in the firmware version string.
C8_ContainmentDecides ==
    (/\ cls = "Hydra"
     /\ op \in {"is_updated", "has_newest_firmware"}
     /\ result = "return")
        => (retval = TRUE) <=> Occurs(latest, ret)

\* C8 witness: is_updated read true with a version string that contains the
\* latest build and is not equal to it
C8_Witness ==
    /\ cls = "Hydra"
    /\ op = "is_updated"
    /\ result = "return"
    /\ retval = TRUE
    /\ latest = <<"4","2">>
    /\ ret = <<"r","4","2">>

\* what a DevelDevice call other than cmd looks like while and after it runs
DevelQuiet ==
    (cls = "DevelDevice" /\ op \in Properties \cup {"update", "reset_config"})
        => /\ result = "return"
           /\ sent = NoneSent
           /\ events = <<>>
           /\ resets = {}
           /\ slept = 0
           /\ op = "is_updated" => retval = TRUE
           /\ op \in Properties \ {"is_updated"} => retval = NotSupported
           /\ op \in {"update", "reset_config"} => retval = NoValue

\* C9: on a DevelDevice is_updated is True, update() and reset_config() send
\* nothing and leave every connection as it was, and the other properties
\* give "not supported" without a query of the build server or a command.
C9_DevelNoOp ==
    /\ []DevelQuiet
    /\ [][(cls = "DevelDevice" /\ op' # "cmd") => UNCHANGED <<conns, exp>>]_vars

\* C9 witness: update() of a DevelDevice returned while a connection holds a
\* session from an earlier command
C9_Witness ==
    /\ cls = "DevelDevice"
    /\ op = "update"
    /\ result = "return"
    /\ \E c \in DOMAIN exp : exp[c].live

\* C10: a call of cmd, update() or reset_config() ends with a normal return,
\* CantHandleException or UpdateFailedException and with nothing else.
C10_OnlyDeclaredErrors ==
    (op \in {"cmd", "update", "reset_config"} /\ pc = <<>>)
        => result \in {"return", "CantHandleException",
                       "UpdateFailedException"}

\* how often the call has done e
Count(e) == Cardinality({k \in DOMAIN events : events[k] = e})

\* the number that a string of decimal digits writes
RECURSIVE DecValue(_)
DecValue(s) ==
    IF s = <<>> THEN 0
    ELSE 10 * DecValue(SubSeq(s, 1, Len(s) - 1))
            + (CHOOSE d \in 0..9 : Digits[d + 1] = s[Len(s)])

\* C11: update() of a device that was not updated, whose update command was
\* dispatched and whose freshness check afterwards read false, ends with
\* UpdateFailedException (the third query of the build server is the one for
\* the error text, made only after a negative check).
C11_NegativePostCheckFails ==
    (op = "update" /\ pc = <<>> /\ Count("http") = 3)
        => result = "UpdateFailedException"

\* C12: the text of an UpdateFailedException of update() holds the exit
\* status of the update command and the output of the update command.
C12_ErrorCarriesExitAndOutput ==
    (op = "update" /\ result = "UpdateFailedException")
        => /\ Occurs(DecStr(exitStatus), retval)
           /\ Occurs(out, retval)

\* C13: when every connection fails in a Device.cmd of update() (version
\* query or update command), update() ends there with CantHandleException.
C13_DispatchFailureSurfaces ==
    (op = "update" /\ cls = "Hydra" /\ Exhausted)
        => (pc = <<>> /\ result = "CantHandleException")

\* C13 witness: the version query of the check after the update command
\* failed on every connection
C13_Witness ==
    /\ op = "update"
    /\ Exhausted
    /\ msg = "version"
    /\ Count("http") = 2
    /\ Count("cmd_update") = 1
    /\ Len(conns) = 2
    /\ result = "CantHandleException"

\* C14: one Device.cmd tries the connections in list order, each at most
\* once, logs one failure for each connection that failed, and makes at most
\* len(conns) attempts.
C14_SinglePassInOrder ==
    /\ Len(attempts) <= Len(conns)
    /\ \A j \in DOMAIN attempts : attempts[j].conn = conns[j]
    /\ \A j, k \in DOMAIN attempts :
           j # k => attempts[j].conn # attempts[k].conn
    /\ Len(logged) = Cardinality({j \in DOMAIN attempts : ~attempts[j].ok})
    /\ \A j \in DOMAIN logged : logged[j] = attempts[j].conn /\ ~attempts[j].ok
    /\ At("cmd") => idx = Len(attempts) + 1

\* C14 witness: a reset command that failed on both connections, each tried
\* and logged once
C14_Witness ==
    /\ op = "reset_config"
    /\ Len(conns) = 2
    /\ Len(attempts) = 2
    /\ logged = <<conns[1], conns[2]>>
    /\ sent["reset"] = 2
    /\ result = "CantHandleException"

\* s begins with p
StartsWith(s, p) == Len(s) >= Len(p) /\ SubSeq(s, 1, Len(p)) = p

\* C15: an update() that started from not updated and came to its check
\* after the update has done, in this order: the entry check, one dispatch of
\* the update command, the session reset, the wait, the check.
C15_UpdateOrder ==
    (op = "update" /\ cls = "Hydra" /\ Count("http") >= 2)
        => StartsWith(events,
               <<"log_attempt", "http", "cmd_version", "cmd_update",
                 "del_exp", "sleep", "http">>)

\* the value of the freshness check is that of the version query just made
LiveValue ==
    /\ msg = "version"
    /\ attempts # <<>>
    /\ attempts[Len(attempts)].ok
    /\ sent["version"] >= Count("cmd_version")
    /\ fresh <=> Occurs(latest, attempts[Len(attempts)].out)

\* C16: every evaluation of is_updated on a Hydra makes its own query of the
\* build server and its own version command, and its value is computed from
\* what that version command returned: one of each at the entry check of
\* update(), two of each at the check after the update.
C16_FreshnessIsLive ==
    /\ (op \in {"update", "is_updated"} /\ (At("update_guard") \/ At("return")))
           => (Count("http") = 1 /\ Count("cmd_version") = 1 /\ LiveValue)
    /\ (op = "update" /\ At("update_verify"))
           => (Count("http") = 2 /\ Count("cmd_version") = 2 /\ LiveValue)

\* C16 witness: the check after the update read true in a call whose entry
\* check had read false
C16_Witness ==
    /\ op = "update"
    /\ At("update_verify")
    /\ Count("cmd_update") = 1
    /\ fresh
    /\ sent["version"] = 2

\* C17: the connection list stays what the constructor made it, and a
\* session reset changes the session of one connection and nothing else of
\* the connections.
C17_ConnectionsStable ==
    /\ [](/\ conns = [i \in 1..Len(conns) |-> i]
          /\ DOMAIN exp = 1..Len(conns))
    /\ [][/\ conns' = conns
          /\ (resets' # resets /\ resets' # {}) =>
                 \E c \in DOMAIN exp :
                     /\ resets' = resets \cup {c}
                     /\ exp[c].live
                     /\ exp' = [exp EXCEPT ![c] = NoSession]]_vars

\* C17 witness: update() has reset the session of the first of two
\* connections; the second still holds its session
C17_Witness ==
    /\ op = "update"
    /\ conns = <<1, 2>>
    /\ resets = {1}
    /\ exp[1] = NoSession
    /\ exp[2].live

\* C18: latest_build of a Hydra is the largest build number among the records of the
\* answer, wherever in the answer that record stands.
C18_LatestIsMaximum ==
    /\ response # <<>> =>
           /\ \E k \in DOMAIN response : DecValue(latest) = response[k]
           /\ \A k \in DOMAIN response : response[k] <= DecValue(latest)
    /\ (cls = "Hydra" /\ op = "latest_build" /\ result = "return")
           => retval = latest

\* C18 witness: latest_build returned 42 for an answer that lists 42 before 4
C18_Witness ==
    /\ op = "latest_build"
    /\ result = "return"
    /\ response = <<42, 4>>
    /\ retval = <<"4","2">>

LoginUpperWord == <<"L","O","G","I","N">>

\* lower occurs in hay when the case of the letters is ignored
OccursNoCase(lower, upper, hay) ==
    \E i \in 0..(Len(hay) - Len(lower)) :
        \A k \in 1..Len(lower) : hay[i + k] \in {lower[k], upper[k]}

\* the step of update() or reset_config() that looks at the last match:
\* it resets the first connection exactly when wanted, and nothing else
FirstOnly(wanted) ==
    LET first == conns[1] IN
    /\ \A c \in DOMAIN exp \ {first} : exp'[c] = exp[c]
    /\ wanted => (resets' = {first} /\ exp'[first] = NoSession)
    /\ ~wanted => (resets' = {} /\ exp'[first] = exp[first])

\* C19: update() and reset_config() look at and reset the session of the
\* first connection only: update() iff its last match contains "closed",
\* reset_config() iff it does not contain "login" in any case; the sessions
\* of the other connections stay as they are.
C19_OnlyFirstConnection ==
    [][/\ (At("update_reset") /\ pc' # pc) =>
              FirstOnly(/\ exp[conns[1]].text
                        /\ Occurs(ClosedWord, exp[conns[1]].after))
       /\ (At("reset_reset") /\ pc' # pc) =>
              FirstOnly(/\ exp[conns[1]].text
                        /\ ~OccursNoCase(LoginWord, LoginUpperWord,
                                         exp[conns[1]].after))
       /\ \A c \in resets' : c = conns[1]]_vars

\* C19 witness: reset_config() was served by the second connection, whose
\* match was the closed connection; the first session was reset, the second
\* was left
C19_Witness ==
    /\ op = "reset_config"
    /\ result = "return"
    /\ served = 2
    /\ resets = {1}
    /\ exp[2] = Matched(ClosedText)

====
